---- MODULE Spec2Model ----
(***************************************************************************)
(* Model of the image collection / de-duplication / rename pipeline of     *)
(* image_batch_process.                                                    *)
(*                                                                         *)
(*   src/images_processor.py                        variant "class"        *)
(*   src/reconstruct_process/images_processor.py    variant "gui"          *)
(*   src/reconstruct_process/image_merge_and_rename.py  variant "script"   *)
(*   (src/reconstruct_process/images_merge_and_rename.py has the collect   *)
(*    and rename steps of the script variant inside a class)               *)
(*                                                                         *)
(* File names are sequences of one-character strings, so that the regular  *)
(* expressions, os.path.splitext and the f-strings of the source are       *)
(* computed on the characters.  A date is <<Y, M, D, h, m, s, us>>.        *)
(***************************************************************************)
EXTENDS Integers, Sequences, FiniteSets, TLC

VARIABLES
    variant,      \* which of the variants of the pipeline runs
    posix,        \* TRUE: os.rename replaces an existing file; FALSE: it raises
    src,          \* the image tree under the source folders, in os.walk order
    srcGone,      \* indexes of src whose file is no longer in the source tree
    target,       \* the target directory: file name -> file
    pc,           \* position of process_images
    run,          \* 0 before process_images is called, 1 in the first run, 2 in the
                  \* run on the same sources and target that follows it
    cur,          \* index in src of the next file of the walk
    collected_images, \* list of target names copied by this run
    hash_dict,    \* fingerprint -> target name, of this run
    image_dates,  \* the sorted list of <<name, date>> of the rename pass
    idx,          \* number of records of image_dates the rename loop has handled
    log,          \* what the run did, one entry per file handled or renamed
    signals,      \* the observer notifications of this run, in order
    faults,       \* number of injected OS failures so far
    endOfRun1,    \* the target directory as the first run left it
    fmt,          \* SpecNames only: one use of the file name format of the rename
                  \* loop, [index, old_name, date, new_name]
    target_exists,  \* TRUE when the target folder is a directory of the file system
    source_folders, \* ImageProcessor.source_folders
    target_folder,  \* ImageProcessor.target_folder
    call,         \* the last call made on the ImageProcessor and what it did:
                  \* [op, arg, notified, raised]
    ncalls,       \* number of add_folder / remove_folder / select_target_folder calls
    probe,        \* SpecDates only: one file given to the date resolvers,
                  \* [file_name, exif, mtime, date_class, date_script]
    directory,    \* SpecDelete only: the directory of delete_duplicate_images,
                  \* file name -> [size, isfile]
    files,        \* SpecDelete only: what os.listdir returned
    pos           \* SpecDelete only: number of entries of files the loop has handled

vars == <<variant, posix, src, srcGone, target, pc, run, cur, collected_images,
          hash_dict, image_dates, idx, log, signals, faults, endOfRun1, fmt,
          target_exists, source_folders, target_folder, call, ncalls, probe,
          directory, files, pos>>

-----------------------------------------------------------------------------
(* Bounds of the model *)

\* most files under the source folders
MaxFiles == 2
\* most injected OS failures (copy or rename raising) in one behaviour
MaxFaults == 1
\* largest sequence number whose file name is built in SpecNames
MaxIndex == 10000
\* most add_folder / remove_folder / select_target_folder calls in one behaviour
MaxCalls == 4
\* most entries of the directory given to delete_duplicate_images
MaxEntries == 3

-----------------------------------------------------------------------------
(* Characters and strings *)

DigitChars == <<"0", "1", "2", "3", "4", "5", "6", "7", "8", "9">>
LowerChars == <<"a", "b", "c", "d", "e", "f", "g", "h", "i", "j", "k", "l", "m",
                "n", "o", "p", "q", "r", "s", "t", "u", "v", "w", "x", "y", "z">>
UpperChars == <<"A", "B", "C", "D", "E", "F", "G", "H", "I", "J", "K", "L", "M",
                "N", "O", "P", "Q", "R", "S", "T", "U", "V", "W", "X", "Y", "Z">>

Range(s) == {s[i] : i \in DOMAIN s}

IsDigit(c) == c \in Range(DigitChars)
IsAlnum(c) == c \in Range(DigitChars) \cup Range(LowerChars) \cup Range(UpperChars)

IndexIn(s, c) == CHOOSE i \in DOMAIN s : s[i] = c

DigitVal(c) == IndexIn(DigitChars, c) - 1

\* str.lower() on one character
LowerChar(c) == IF c \in Range(UpperChars) THEN LowerChars[IndexIn(UpperChars, c)] ELSE c
Lower(s) == [i \in DOMAIN s |-> LowerChar(s[i])]

EndsWith(s, suf) ==
    /\ Len(s) >= Len(suf)
    /\ SubSeq(s, Len(s) - Len(suf) + 1, Len(s)) = suf

\* int(s) for a string of digits
RECURSIVE IntOf(_)
IntOf(s) == IF s = <<>> THEN 0
            ELSE 10 * IntOf(SubSeq(s, 1, Len(s) - 1)) + DigitVal(s[Len(s)])

\* str(n) for n >= 0
RECURSIVE StrOf(_)
StrOf(n) == IF n < 10 THEN <<DigitChars[n + 1]>>
            ELSE StrOf(n \div 10) \o <<DigitChars[(n % 10) + 1]>>

RECURSIVE Zeros(_)
Zeros(k) == IF k <= 0 THEN <<>> ELSE <<"0">> \o Zeros(k - 1)

\* format(n, "0<w>d"): at least w digits, padded with zeros on the left
ZeroPad(n, w) == Zeros(w - Len(StrOf(n))) \o StrOf(n)

-----------------------------------------------------------------------------
(* File names *)

\* os.path.splitext(file): <<root, ext>>, split at the last dot that has a
\* character other than a dot before it
splitext(file) ==
    LET dots == {i \in DOMAIN file : file[i] = "."}
    IN  IF dots = {} THEN <<file, <<>>>>
        ELSE LET d == CHOOSE i \in dots : \A j \in dots : j <= i
             IN  IF \E j \in 1..(d - 1) : file[j] # "."
                 THEN <<SubSeq(file, 1, d - 1), SubSeq(file, d, Len(file))>>
                 ELSE <<file, <<>>>>

image_extensions ==
    { <<".", "j", "p", "g">>, <<".", "j", "p", "e", "g">>, <<".", "p", "n", "g">>,
      <<".", "g", "i", "f">>, <<".", "b", "m", "p">> }

\* file.lower().endswith(image_extensions)
is_image_file(file) == \E e \in image_extensions : EndsWith(Lower(file), e)

\* re.match(r"^[a-zA-Z0-9]+$", os.path.splitext(file_name)[0]) is not None
is_random_name(file_name) ==
    LET base == splitext(file_name)[1]
    IN  base # <<>> /\ \A i \in DOMAIN base : IsAlnum(base[i])

\* the default argument prefix of add_prefix_to_image, four CJK characters
prefix == <<"U+7591", "U+4F3C", "U+7F51", "U+56FE">>

\* f"{prefix}_{file_name}"
prefixed_name(file_name) == prefix \o <<"_">> \o file_name

\* f"{name}_{counter}{ext}"
suffixed_name(file, counter) ==
    splitext(file)[1] \o <<"_">> \o StrOf(counter) \o splitext(file)[2]

AllDigits(s, from, n) ==
    /\ from + n - 1 <= Len(s)
    /\ \A i \in from..(from + n - 1) : IsDigit(s[i])

\* r"\d{8}_\d{6}" matches at position p of s
TimeInfoAt(s, p) ==
    /\ p + 14 <= Len(s)
    /\ AllDigits(s, p, 8)
    /\ s[p + 8] = "_"
    /\ AllDigits(s, p + 9, 6)

-----------------------------------------------------------------------------
(* Dates *)

None == <<>>

IsLeap(y) == (y % 4 = 0 /\ y % 100 # 0) \/ y % 400 = 0

DaysInMonth(y, m) ==
    IF m = 2 THEN (IF IsLeap(y) THEN 29 ELSE 28)
    ELSE IF m \in {4, 6, 9, 11} THEN 30 ELSE 31

\* datetime(*date_parts) as it would be if only the month and the day of the
\* month were looked at, each against a fixed range
month_and_day_in_range(p) == p[2] >= 1 /\ p[2] <= 12 /\ p[3] >= 1 /\ p[3] <= 31

\* datetime(y, m, d, hh, mm, ss) does not raise ValueError
ValidDate(p) ==
    /\ p[1] >= 1 /\ p[1] <= 9999
    /\ p[2] >= 1 /\ p[2] <= 12
    /\ p[3] >= 1 /\ p[3] <= DaysInMonth(p[1], p[2])
    /\ p[4] >= 0 /\ p[4] <= 23
    /\ p[5] >= 0 /\ p[5] <= 59
    /\ p[6] >= 0 /\ p[6] <= 59

\* a < b on datetime values
RECURSIVE LexLess(_, _, _)
LexLess(a, b, i) ==
    IF i > Len(a) THEN FALSE
    ELSE IF a[i] # b[i] THEN a[i] < b[i]
    ELSE LexLess(a, b, i + 1)

DateLess(a, b) == LexLess(a, b, 1)

\* date.strftime("%Y%m%d_%H%M%S") (years of four digits)
strftime(d) ==
    ZeroPad(d[1], 4) \o ZeroPad(d[2], 2) \o ZeroPad(d[3], 2) \o <<"_">> \o
    ZeroPad(d[4], 2) \o ZeroPad(d[5], 2) \o ZeroPad(d[6], 2)

date_widths == <<4, 2, 2, 2, 2, 2>>

\* The groups of date_pattern matched at position p of s, or None:
\* (\d{4})[-_]?(\d{2})[-_]?(\d{2})[-_]?(\d{2})[-_]?(\d{2})[-_]?(\d{2})
\* A separator is never a digit, so the optional separator is taken exactly
\* when it is there.
RECURSIVE DateGroupsAt(_, _, _)
DateGroupsAt(s, p, g) ==
    IF g > Len(date_widths) THEN <<>>
    ELSE LET w == date_widths[g]
         IN  IF ~AllDigits(s, p, w) THEN None
             ELSE IF g = Len(date_widths) THEN <<IntOf(SubSeq(s, p, p + w - 1))>>
             ELSE LET q == IF p + w <= Len(s) /\ s[p + w] \in {"-", "_"}
                           THEN p + w + 1 ELSE p + w
                      rest == DateGroupsAt(s, q, g + 1)
                  IN  IF rest = None THEN None
                      ELSE <<IntOf(SubSeq(s, p, p + w - 1))>> \o rest

\* re.search(date_pattern, file_name): the groups of the leftmost match, or None
date_match(file_name) ==
    LET hits == {p \in DOMAIN file_name : DateGroupsAt(file_name, p, 1) # None}
    IN  IF hits = {} THEN None
        ELSE DateGroupsAt(file_name, CHOOSE p \in hits : \A q \in hits : p <= q, 1)

\* _get_time_string as it would be with the search of the file name left out
get_time_string_date_only(file_name, date) == strftime(date)

\* _get_time_string: the first r"\d{8}_\d{6}" of file_name, else the date formatted
get_time_string(file_name, date) ==
    LET hits == {p \in DOMAIN file_name : TimeInfoAt(file_name, p)}
    IN  IF hits = {} THEN strftime(date)
        ELSE LET p == CHOOSE q \in hits : \A r \in hits : q <= r
             IN  SubSeq(file_name, p, p + 14)

\* f"{index:04d}_{time_str}{os.path.splitext(old_name)[1]}"
new_name(index, old_name, date) ==
    ZeroPad(index, 4) \o <<"_">> \o get_time_string(old_name, date)
        \o splitext(old_name)[2]

-----------------------------------------------------------------------------
(* Files *)

\* The DateTime tag of the EXIF block of a content, parsed with
\* "%Y:%m:%d %H:%M:%S", or None when the content has none or it does not parse.
\* The tag is part of the bytes, so a copy has the tag of its source.
ExifDate(content) ==
    IF content = 2 THEN <<2021, 7, 4, 9, 15, 0, 0>> ELSE None

\* datetime.fromtimestamp(os.path.getmtime(file_path))
MTime(f) == f.mtime

\* ImageProcessor._get_image_date: EXIF, then file name, then modification time
get_image_date(file_name, f) ==
    IF ExifDate(f.content) # None THEN ExifDate(f.content)
    ELSE LET m == date_match(file_name)
         IN  IF m # None /\ ValidDate(m) THEN m \o <<0>>
             ELSE MTime(f)

\* get_image_date of the script: file name (month 1..12 and day 1..31 checked
\* before datetime is built), then EXIF, then modification time
get_image_date_script(file_name, f) ==
    LET m == date_match(file_name)
    IN  IF m # None /\ m[2] >= 1 /\ m[2] <= 12 /\ m[3] >= 1 /\ m[3] <= 31 /\ ValidDate(m)
        THEN m \o <<0>>
        ELSE IF ExifDate(f.content) # None THEN ExifDate(f.content)
        ELSE MTime(f)

ResolveDate(v, file_name, f) ==
    IF v = "script" THEN get_image_date_script(file_name, f)
    ELSE get_image_date(file_name, f)

T1 == <<2022, 5, 12, 14, 30, 0, 0>>
T2 == <<2022, 5, 12, 14, 30, 0, 500>>
T3 == <<2024, 2, 29, 8, 0, 0, 0>>
\* the modification time of a file that a failed copy left half written
TNow == <<2025, 1, 1, 0, 0, 0, 0>>

n_plain  == <<"a", "-", "b", ".", "j", "p", "g">>
n_opaque == <<"a", "b", "1", ".", "J", "P", "G">>
n_dated  == <<"2", "0", "2", "3", "0", "1", "0", "1", "_",
              "1", "2", "0", "0", "0", "0", ".", "j", "p", "g">>
n_seq    == <<"0", "0", "0", "1", "_">> \o n_dated
n_locked == <<"e", "-", "f", ".", "j", "p", "g">>
n_text   == <<"a", "-", "b", ".", "t", "x", "t">>

\* The files the source tree is drawn from.  dir is the directory (a source
\* folder or one of its subdirectories), content the bytes (0: a truncated
\* file), readable whether open() and read() succeed.
Catalog ==
    << [dir |-> 1, name |-> n_plain,  content |-> 1, mtime |-> T1, readable |-> TRUE],
       [dir |-> 2, name |-> n_plain,  content |-> 2, mtime |-> T2, readable |-> TRUE],
       [dir |-> 2, name |-> n_opaque, content |-> 1, mtime |-> T3, readable |-> TRUE],
       [dir |-> 1, name |-> n_opaque, content |-> 3, mtime |-> T1, readable |-> TRUE],
       [dir |-> 1, name |-> n_seq,    content |-> 4, mtime |-> T3, readable |-> TRUE],
       [dir |-> 2, name |-> n_dated,  content |-> 5, mtime |-> T3, readable |-> TRUE],
       [dir |-> 1, name |-> n_locked, content |-> 6, mtime |-> T2, readable |-> FALSE],
       [dir |-> 2, name |-> n_text,   content |-> 7, mtime |-> T1, readable |-> TRUE] >>

\* os.walk lists the files of one directory together
Contiguous(s) ==
    \A i, j, k \in DOMAIN s : (i < j /\ j < k /\ s[i].dir = s[k].dir) => s[j].dir = s[i].dir

\* The orders in which the walk can enumerate a tree of at most MaxFiles files
Trees ==
    UNION { { [i \in 1..n |-> Catalog[c[i]]] :
                c \in { d \in [1..n -> DOMAIN Catalog] :
                          \A i, j \in 1..n : i # j => d[i] # d[j] } }
            : n \in 1..MaxFiles }

Variants == {"class", "gui", "script"}

-----------------------------------------------------------------------------
(* The file system *)

NoFiles == [n \in {} |-> 0]

\* os.path.exists(os.path.join(target_folder, name))
exists(name) == name \in DOMAIN target

Put(dir, name, f) == [n \in DOMAIN dir \cup {name} |-> IF n = name THEN f ELSE dir[n]]
Remove(dir, name) == [n \in DOMAIN dir \ {name} |-> dir[n]]

\* what shutil.copy2 writes: the bytes and the modification time of the source
CopyOf(f) == [content |-> f.content, mtime |-> f.mtime]

\* what a copy that fails after opening the destination leaves behind
Truncated == [content |-> 0, mtime |-> TNow]

\* the loop of _get_unique_target_path from the given counter on
RECURSIVE unique_from(_, _)
unique_from(file, counter) ==
    IF exists(suffixed_name(file, counter))
    THEN unique_from(file, counter + 1)
    ELSE suffixed_name(file, counter)

\* ImageProcessor._get_unique_target_path
get_unique_target_path(file) ==
    IF exists(file) THEN unique_from(file, 1) ELSE file

\* MD5 of the bytes: equal contents have equal fingerprints (collisions aside)
\* a fingerprint that does not depend on the bytes
get_file_hash_constant(f) == 0

get_file_hash(f) == f.content

\* file_hash not in hash_dict
is_new_hash(h, d) == h \notin DOMAIN d

\* the class variant renames opaque names through add_prefix_to_image; the
\* other variants have no such step
uses_prefix(v, file) == v = "class" /\ is_random_name(file)

\* What the collect step does when get_file_hash raises: the class variant and
\* the gui variant catch and go on, the script has no handler
on_hash_error(v) == IF v = "script" THEN "abort" ELSE "skip"

\* What the collect step does when shutil.copy2 raises OSError: only the gui
\* variant catches Exception; the class variant catches ImageCopyError, which
\* copy2 never raises; the script has no handler
on_copy_error(v) == IF v = "gui" THEN "skip" ELSE "abort"

\* What the rename loop does when os.rename raises: the class variant raises
\* ImageRenameError out of the loop; the others print and go on
on_rename_error(v) == IF v = "class" THEN "abort" ELSE "skip"

\* only main() of the script creates the target folder (os.makedirs)
makes_target(v) == v = "script"

\* folder paths: the empty string, two source folders and a target folder
NoPath == ""
FolderPaths == <<"d1", "d2">>
TargetPath == "t"

\* no call has been made on the ImageProcessor yet
NoCall == [op |-> "none", arg |-> NoPath, index |-> 0, notified |-> <<>>, raised |-> ""]

\* process_images with the two checks in the other order
config_error_target_first(folders, folder) ==
    IF folder = NoPath THEN "no_target"
    ELSE IF folders = <<>> THEN "no_source"
    ELSE ""

\* the two checks at the head of process_images: the ValueError it raises, ""
\* when it raises none
config_error(folders, folder) ==
    IF folders = <<>> THEN "no_source"
    ELSE IF folder = NoPath THEN "no_target"
    ELSE ""

\* add_folder with the test of its argument left out
accepts_any_folder(folder, folders) == TRUE

\* add_folder: "if folder and folder not in self.source_folders"
accepts_folder(folder, folders) == folder # NoPath /\ folder \notin Range(folders)

\* remove_folder: "if 0 <= index < len(self.source_folders)"
valid_index(index, folders) == 0 <= index /\ index < Len(folders)

\* del folders[index], index counted from 0
del_at(folders, index) ==
    [k \in 1..(Len(folders) - 1) |-> IF k <= index THEN folders[k] ELSE folders[k + 1]]

\* only the class variant has observers
\* notify_observers putting the event before those already sent
Notify_first(v, sig, event) == IF v = "class" THEN <<event>> \o sig ELSE sig

Notify(v, sig, event) == IF v = "class" THEN Append(sig, event) ELSE sig

Entry(op, i, path, to, n) == [op |-> op, i |-> i, path |-> path, to |-> to, n |-> n]

-----------------------------------------------------------------------------
(* The sort of the rename pass *)

\* list.sort(key=lambda x: x[1]): a stable sort by date.  Insert x after every
\* element that is not later than it
RECURSIVE insert_sorted(_, _)
insert_sorted(s, x) ==
    IF s = <<>> THEN <<x>>
    ELSE IF DateLess(x[2], s[Len(s)][2])
         THEN Append(insert_sorted(SubSeq(s, 1, Len(s) - 1), x), s[Len(s)])
         ELSE Append(s, x)

RECURSIVE sort_by_date(_)
sort_by_date(s) ==
    IF s = <<>> THEN <<>>
    ELSE insert_sorted(sort_by_date(SubSeq(s, 1, Len(s) - 1)), s[Len(s)])

-----------------------------------------------------------------------------
(* The state machine *)

Init ==
    /\ variant \in Variants
    /\ posix \in BOOLEAN
    /\ src \in {t \in Trees : Contiguous(t)}
    /\ srcGone = {}
    /\ target = NoFiles
    /\ pc = "idle"
    /\ run = 0
    /\ cur = 1
    /\ collected_images = <<>>
    /\ hash_dict = NoFiles
    /\ image_dates = <<>>
    /\ idx = 0
    /\ log = <<>>
    /\ signals = <<>>
    /\ faults = 0
    /\ endOfRun1 = NoFiles
    /\ fmt = None
    /\ target_exists \in BOOLEAN
    /\ source_folders = FolderPaths
    /\ target_folder = TargetPath
    /\ call = NoCall
    /\ ncalls = 0
    /\ probe = None
    /\ directory = NoFiles
    /\ files = <<>>
    /\ pos = 0

\* what no step of a run changes, the source tree apart
Setup == <<variant, posix, fmt, source_folders, target_folder, call, ncalls, probe,
           directory, files, pos>>

Config == <<Setup, src, target_exists>>

\* _collect_and_deduplicate_images starts with an empty list and an empty index
BeginCollect ==
    /\ pc' = "collect"
    /\ cur' = 1
    /\ collected_images' = <<>>
    /\ hash_dict' = NoFiles
    /\ image_dates' = <<>>
    /\ idx' = 0
    /\ log' = <<>>
    /\ signals' = <<>>
    /\ target_exists' = (target_exists \/ makes_target(variant))
    /\ UNCHANGED <<Setup, srcGone, target, faults>>

\* process_images is called (source folders and target folder are set)
StartRun ==
    /\ pc = "idle"
    /\ config_error(source_folders, target_folder) = ""
    /\ run' = 1
    /\ endOfRun1' = endOfRun1
    /\ src' = src
    /\ BeginCollect

RunEnded == pc \in {"done", "aborted"}

\* process_images is called a second time, with the same source folders and
\* the same target folder, after the first call has returned or raised
RunAgain ==
    /\ RunEnded
    /\ run = 1
    /\ run' = 2
    /\ endOfRun1' = target
    /\ src' = src
    /\ BeginCollect

Walking == pc = "collect" /\ cur <= Len(src)

\* os.walk does not list a file that is no longer in the tree
SkipMissing ==
    /\ Walking
    /\ cur \in srcGone
    /\ cur' = cur + 1
    /\ UNCHANGED <<Config, srcGone, target, pc, run, collected_images, hash_dict,
                   image_dates, idx, log, signals, faults, endOfRun1>>

\* _process_folder: a file that is not an image is passed over
SkipNonImage ==
    /\ Walking
    /\ cur \notin srcGone
    /\ ~is_image_file(src[cur].name)
    /\ cur' = cur + 1
    /\ log' = Append(log, Entry("not_image", cur, <<>>, <<>>, 0))
    /\ UNCHANGED <<Config, srcGone, target, pc, run, collected_images, hash_dict,
                   image_dates, idx, signals, faults, endOfRun1>>

Hashing == Walking /\ cur \notin srcGone /\ is_image_file(src[cur].name)

\* _process_image_file: _get_file_hash raises HashCalculationError
HashFail ==
    /\ Hashing
    /\ ~src[cur].readable
    /\ log' = Append(log, Entry("hash_failed", cur, <<>>, <<>>, 0))
    /\ IF on_hash_error(variant) = "skip"
       THEN cur' = cur + 1 /\ pc' = pc
       ELSE cur' = cur /\ pc' = "aborted"
    /\ UNCHANGED <<Config, srcGone, target, run, collected_images, hash_dict,
                   image_dates, idx, signals, faults, endOfRun1>>

\* _process_image_file: the fingerprint is in hash_dict already
SkipDuplicate ==
    /\ Hashing
    /\ src[cur].readable
    /\ ~is_new_hash(get_file_hash(src[cur]), hash_dict)
    /\ cur' = cur + 1
    /\ log' = Append(log, Entry("duplicate", cur, <<>>, <<>>, 0))
    /\ UNCHANGED <<Config, srcGone, target, pc, run, collected_images, hash_dict,
                   image_dates, idx, signals, faults, endOfRun1>>

NewImage ==
    /\ Hashing
    /\ src[cur].readable
    /\ is_new_hash(get_file_hash(src[cur]), hash_dict)

\* _copy_unique_image, ordinary name: shutil.copy2 to the unique path succeeds
CopyImage ==
    /\ NewImage
    /\ target_exists
    /\ ~uses_prefix(variant, src[cur].name)
    /\ LET target_path == get_unique_target_path(src[cur].name)
       IN  /\ target' = Put(target, target_path, CopyOf(src[cur]))
           /\ collected_images' = Append(collected_images, target_path)
           /\ hash_dict' = Put(hash_dict, get_file_hash(src[cur]), target_path)
           /\ log' = Append(log, Entry("copied", cur, target_path, <<>>, 0))
    /\ cur' = cur + 1
    /\ UNCHANGED <<Config, srcGone, pc, run, image_dates, idx, signals, faults,
                   endOfRun1>>

\* _copy_unique_image, ordinary name: shutil.copy2 raises OSError, before the
\* destination is opened or after (a truncated file is left)
CopyFail ==
    /\ NewImage
    /\ target_exists
    /\ ~uses_prefix(variant, src[cur].name)
    /\ faults < MaxFaults
    /\ faults' = faults + 1
    /\ LET target_path == get_unique_target_path(src[cur].name)
       IN  /\ \E opened \in BOOLEAN :
                target' = IF opened THEN Put(target, target_path, Truncated) ELSE target
           /\ log' = Append(log, Entry("copy_failed", cur, target_path, <<>>, 0))
    /\ IF on_copy_error(variant) = "skip"
       THEN cur' = cur + 1 /\ pc' = pc
       ELSE cur' = cur /\ pc' = "aborted"
    /\ UNCHANGED <<Config, srcGone, run, collected_images, hash_dict, image_dates,
                   idx, signals, endOfRun1>>

\* _copy_unique_image, opaque name (class variant): add_prefix_to_image moves
\* the source file to <prefix>_<name> in the target with os.rename; the
\* shutil.copy2 that follows finds no source file and raises FileNotFoundError,
\* which "except ImageCopyError" does not catch
CopyOpaque ==
    /\ NewImage
    /\ target_exists
    /\ uses_prefix(variant, src[cur].name)
    /\ LET new_path == prefixed_name(src[cur].name)
       IN  IF exists(new_path) /\ ~posix
           THEN \* os.rename raises FileExistsError
                /\ log' = Append(log, Entry("prefix_failed", cur, new_path, <<>>, 0))
                /\ UNCHANGED <<target, srcGone>>
           ELSE /\ target' = Put(target, new_path, CopyOf(src[cur]))
                /\ srcGone' = srcGone \cup {cur}
                /\ log' = Append(log, Entry("moved", cur, new_path, <<>>, 0))
    /\ pc' = "aborted"
    /\ UNCHANGED <<Config, run, cur, collected_images, hash_dict, image_dates, idx,
                   signals, faults, endOfRun1>>

\* _copy_unique_image when the target folder is not a directory: shutil.copy2
\* (os.rename in add_prefix_to_image, for an opaque name) raises
\* FileNotFoundError, and nothing is written
CopyNoTarget ==
    /\ NewImage
    /\ ~target_exists
    /\ log' = Append(log, Entry("no_target", cur, <<>>, <<>>, 0))
    /\ IF on_copy_error(variant) = "skip"
       THEN cur' = cur + 1 /\ pc' = pc
       ELSE cur' = cur /\ pc' = "aborted"
    /\ UNCHANGED <<Config, srcGone, target, run, collected_images, hash_dict,
                   image_dates, idx, signals, faults, endOfRun1>>

\* _collect_and_deduplicate_images: the walk is over
CollectDone ==
    /\ pc = "collect"
    /\ cur > Len(src)
    /\ signals' = Notify(variant, signals, <<"collection_completed", Len(collected_images)>>)
    /\ pc' = "dated"
    /\ UNCHANGED <<Config, srcGone, target, run, cur, collected_images, hash_dict,
                   image_dates, idx, log, faults, endOfRun1>>

\* _rename_images: the date of every collected file, then the sort
DateAndSort ==
    /\ pc = "dated"
    /\ image_dates' = sort_by_date(
           [k \in DOMAIN collected_images |->
               <<collected_images[k],
                 ResolveDate(variant, collected_images[k], target[collected_images[k]])>>])
    /\ idx' = 0
    /\ pc' = "rename"
    /\ UNCHANGED <<Config, srcGone, target, run, cur, collected_images, hash_dict,
                   log, signals, faults, endOfRun1>>

Renaming == pc = "rename" /\ idx < Len(image_dates)

old_path == image_dates[idx + 1][1]
new_path == new_name(idx + 1, image_dates[idx + 1][1], image_dates[idx + 1][2])

\* os.rename(old_path, new_path) raises: the old file is not there, or the new
\* name is taken and the platform does not replace
rename_raises == ~exists(old_path) \/ (exists(new_path) /\ new_path # old_path /\ ~posix)

AfterRenameError ==
    IF on_rename_error(variant) = "skip"
    THEN idx' = idx + 1 /\ pc' = pc
    ELSE idx' = idx /\ pc' = "aborted"

\* one turn of the rename loop, os.rename succeeding
RenameOne ==
    /\ Renaming
    /\ ~rename_raises
    /\ target' = Put(Remove(target, old_path), new_path, target[old_path])
    /\ log' = Append(log, Entry("renamed", 0, old_path, new_path, idx + 1))
    /\ idx' = idx + 1
    /\ UNCHANGED <<Config, srcGone, pc, run, cur, collected_images, hash_dict,
                   image_dates, signals, faults, endOfRun1>>

\* one turn of the rename loop, os.rename raising because of the names
RenameRaises ==
    /\ Renaming
    /\ rename_raises
    /\ log' = Append(log, Entry("rename_failed", 0, old_path, new_path, idx + 1))
    /\ AfterRenameError
    /\ UNCHANGED <<Config, srcGone, target, run, cur, collected_images, hash_dict,
                   image_dates, signals, faults, endOfRun1>>

\* one turn of the rename loop, os.rename raising OSError (permission, a file
\* in use)
RenameFail ==
    /\ Renaming
    /\ ~rename_raises
    /\ faults < MaxFaults
    /\ faults' = faults + 1
    /\ log' = Append(log, Entry("rename_failed", 0, old_path, new_path, idx + 1))
    /\ AfterRenameError
    /\ UNCHANGED <<Config, srcGone, target, run, cur, collected_images, hash_dict,
                   image_dates, signals, endOfRun1>>

\* the rename loop is over: renaming_completed, then processing_completed
RenameDone ==
    /\ pc = "rename"
    /\ idx = Len(image_dates)
    /\ signals' = Notify(variant,
                    Notify(variant, signals, <<"renaming_completed", Len(collected_images)>>),
                    <<"processing_completed", 0>>)
    /\ pc' = "done"
    /\ UNCHANGED <<Config, srcGone, target, run, cur, collected_images, hash_dict,
                   image_dates, idx, log, faults, endOfRun1>>

Next ==
    \/ StartRun
    \/ RunAgain
    \/ SkipMissing
    \/ SkipNonImage
    \/ HashFail
    \/ SkipDuplicate
    \/ CopyImage
    \/ CopyFail
    \/ CopyOpaque
    \/ CopyNoTarget
    \/ CollectDone
    \/ DateAndSort
    \/ RenameOne
    \/ RenameRaises
    \/ RenameFail
    \/ RenameDone

Spec == Init /\ [][Next]_vars

-----------------------------------------------------------------------------
(* The configuration calls of ImageProcessor, and process_images on what they
   leave *)

\* what the pipeline works on
Pipeline == <<src, srcGone, target, pc, run, cur, collected_images, hash_dict,
              image_dates, idx, log, signals, faults, endOfRun1, target_exists>>

Others == <<variant, posix, fmt, probe, directory, files, pos>>

FoldersInit ==
    /\ variant = "class"
    /\ posix = TRUE
    /\ src = <<>>
    /\ srcGone = {}
    /\ target = NoFiles
    /\ pc = "idle"
    /\ run = 0
    /\ cur = 1
    /\ collected_images = <<>>
    /\ hash_dict = NoFiles
    /\ image_dates = <<>>
    /\ idx = 0
    /\ log = <<>>
    /\ signals = <<>>
    /\ faults = 0
    /\ endOfRun1 = NoFiles
    /\ fmt = None
    /\ target_exists \in BOOLEAN
    /\ source_folders = <<>>
    /\ target_folder = NoPath
    /\ call = NoCall
    /\ ncalls = 0
    /\ probe = None
    /\ directory = NoFiles
    /\ files = <<>>
    /\ pos = 0

Calling == pc = "idle" /\ ncalls < MaxCalls

add_folder ==
    /\ Calling
    /\ \E folder \in Range(FolderPaths) \cup {NoPath} :
         IF accepts_folder(folder, source_folders)
         THEN /\ source_folders' = Append(source_folders, folder)
              /\ call' = [op |-> "add_folder", arg |-> folder, index |-> 0,
                          notified |-> <<<<"source_folders_updated", source_folders'>>>>,
                          raised |-> ""]
         ELSE /\ source_folders' = source_folders
              /\ call' = [op |-> "add_folder", arg |-> folder, index |-> 0,
                          notified |-> <<>>, raised |-> ""]
    /\ ncalls' = ncalls + 1
    /\ UNCHANGED <<Pipeline, Others, target_folder>>

remove_folder ==
    /\ Calling
    /\ \E index \in -1..Len(source_folders) :
         IF valid_index(index, source_folders)
         THEN /\ source_folders' = del_at(source_folders, index)
              /\ call' = [op |-> "remove_folder", arg |-> NoPath, index |-> index,
                          notified |-> <<<<"source_folders_updated", source_folders'>>>>,
                          raised |-> ""]
         ELSE /\ source_folders' = source_folders
              /\ call' = [op |-> "remove_folder", arg |-> NoPath, index |-> index,
                          notified |-> <<>>, raised |-> ""]
    /\ ncalls' = ncalls + 1
    /\ UNCHANGED <<Pipeline, Others, target_folder>>

select_target_folder ==
    /\ Calling
    /\ \E folder \in {NoPath, TargetPath} :
         /\ target_folder' = folder
         /\ call' = [op |-> "select_target_folder", arg |-> folder, index |-> 0,
                     notified |-> <<<<"target_folder_updated", folder>>>>,
                     raised |-> ""]
    /\ ncalls' = ncalls + 1
    /\ UNCHANGED <<Pipeline, Others, source_folders>>

\* process_images raises ValueError at one of its two checks
ConfigError ==
    /\ pc = "idle"
    /\ config_error(source_folders, target_folder) # ""
    /\ call' = [op |-> "process_images", arg |-> NoPath, index |-> 0,
                notified |-> <<>>,
                raised |-> config_error(source_folders, target_folder)]
    /\ UNCHANGED <<Pipeline, Others, source_folders, target_folder, ncalls>>

\* process_images passes its checks (StartRun) and runs over source folders that
\* hold no file
FoldersNext ==
    \/ add_folder
    \/ remove_folder
    \/ select_target_folder
    \/ ConfigError
    \/ StartRun
    \/ CollectDone
    \/ DateAndSort
    \/ RenameDone

SpecFolders == FoldersInit /\ [][FoldersNext]_vars

-----------------------------------------------------------------------------
(* The date resolvers, on their own *)

n_jpg == <<".", "j", "p", "g">>

\* file names with no digit pattern, with a valid one, and with six digit
\* groups that are no date
DateNames ==
    { n_plain, n_dated, n_seq,
      <<"I", "M", "G", "_", "2", "0", "2", "4", "0", "2", "2", "9", "_",
        "2", "3", "5", "9", "5", "9">> \o n_jpg,
      <<"2", "0", "2", "3", "-", "0", "1", "-", "0", "1", "_",
        "1", "2", "-", "0", "0", "-", "0", "0">> \o n_jpg,
      <<"2", "0", "2", "3", "1", "3", "0", "1", "_", "1", "2", "0", "0", "0", "0">> \o n_jpg,
      <<"2", "0", "2", "3", "0", "1", "3", "2", "_", "1", "2", "0", "0", "0", "0">> \o n_jpg,
      <<"2", "0", "2", "3", "0", "2", "3", "0", "_", "1", "2", "0", "0", "0", "0">> \o n_jpg,
      <<"2", "0", "2", "3", "0", "2", "2", "9", "_", "1", "2", "0", "0", "0", "0">> \o n_jpg,
      <<"2", "0", "2", "3", "0", "1", "0", "1", "_", "2", "4", "0", "0", "0", "0">> \o n_jpg,
      <<"2", "0", "2", "3", "0", "1", "0", "1", "_", "1", "2", "6", "0", "0", "0">> \o n_jpg,
      <<"2", "0", "2", "3", "0", "1", "0", "1", "_", "1", "2", "0", "0", "6", "0">> \o n_jpg,
      <<"0", "0", "0", "0", "0", "1", "0", "1", "_", "1", "2", "0", "0", "0", "0">> \o n_jpg,
      <<"2", "0", "2", "3", "0", "0", "0", "1", "_", "1", "2", "0", "0", "0", "0">> \o n_jpg,
      <<"2", "0", "2", "3", "0", "1", "0", "1", "_", "1", "2", "0", "0">> \o n_jpg }

DatesInit ==
    /\ variant \in Variants
    /\ posix = TRUE
    /\ src = <<>>
    /\ srcGone = {}
    /\ target = NoFiles
    /\ pc = "idle"
    /\ run = 0
    /\ cur = 1
    /\ collected_images = <<>>
    /\ hash_dict = NoFiles
    /\ image_dates = <<>>
    /\ idx = 0
    /\ log = <<>>
    /\ signals = <<>>
    /\ faults = 0
    /\ endOfRun1 = NoFiles
    /\ fmt = None
    /\ target_exists = TRUE
    /\ source_folders = FolderPaths
    /\ target_folder = TargetPath
    /\ call = NoCall
    /\ ncalls = 0
    /\ probe \in [file_name : DateNames, content : {1, 2}, mtime : {T1, T3},
                  date : {None}]
    /\ directory = NoFiles
    /\ files = <<>>
    /\ pos = 0

\* the resolver of the variant is called on the file
Resolve ==
    /\ probe.date = None
    /\ probe' = [probe EXCEPT !.date = ResolveDate(variant, probe.file_name, probe)]
    /\ UNCHANGED <<Pipeline, variant, posix, fmt, source_folders, target_folder,
                   call, ncalls, directory, files, pos>>

DatesNext == Resolve

SpecDates == DatesInit /\ [][DatesNext]_vars

Resolved == probe # None /\ probe.date # None

\* the six numbers of the digit pattern of the name are no date
NoDateIn(m) ==
    \/ m[1] = 0
    \/ m[2] < 1 \/ m[2] > 12
    \/ m[3] < 1 \/ m[3] > DaysInMonth(m[1], m[2])
    \/ m[4] > 23 \/ m[5] > 59 \/ m[6] > 59

-----------------------------------------------------------------------------
(* delete_duplicate_images *)

d_a    == <<"a", ".", "j", "p", "g">>
d_a1   == <<"a", "(", "1", ")", ".", "j", "p", "g">>
d_a12  == <<"a", "(", "1", ")", "(", "2", ")", ".", "j", "p", "g">>
d_b2   == <<"b", "(", "2", ")", ".", "j", "p", "g">>
d_ax   == <<"a", "(", "x", ")", ".", "j", "p", "g">>

DeleteNames == {d_a, d_a1, d_a12, d_b2, d_ax}

\* pattern.match(file) for r"^(.+)\(\d+\)(\.[^.]+)$": group 1 and group 2 put
\* together, or None.  Group 2 starts at the last dot, which must have a
\* character after it; ")" comes just before that dot, digits before it, and
\* "(" before them with at least one character in front.
original_name(file) ==
    LET dots == {k \in DOMAIN file : file[k] = "."}
    IN  IF dots = {} THEN None
        ELSE LET p == CHOOSE k \in dots : \A l \in dots : l <= k
                 opens == {q \in 2..(p - 3) :
                             /\ file[q] = "("
                             /\ \A r \in (q + 1)..(p - 2) : IsDigit(file[r])}
             IN  IF p = Len(file) \/ p < 5 \/ file[p - 1] # ")" \/ opens = {}
                 THEN None
                 ELSE LET q == CHOOSE o \in opens : TRUE
                      IN  SubSeq(file, 1, q - 1) \o SubSeq(file, p, Len(file))

\* the orders in which os.listdir can return the names
Listings(names) ==
    {l \in [1..Cardinality(names) -> names] : \A a, b \in DOMAIN l : l[a] = l[b] => a = b}

DeleteInit ==
    /\ variant = "script"
    /\ posix = TRUE
    /\ src = <<>>
    /\ srcGone = {}
    /\ target = NoFiles
    /\ pc = "idle"
    /\ run = 0
    /\ cur = 1
    /\ collected_images = <<>>
    /\ hash_dict = NoFiles
    /\ image_dates = <<>>
    /\ idx = 0
    /\ log = <<>>
    /\ signals = <<>>
    /\ faults = 0
    /\ endOfRun1 = NoFiles
    /\ fmt = None
    /\ target_exists = TRUE
    /\ source_folders = FolderPaths
    /\ target_folder = TargetPath
    /\ call = NoCall
    /\ ncalls = 0
    /\ probe = None
    /\ \E names \in SUBSET DeleteNames :
         /\ names # {}
         /\ Cardinality(names) <= MaxEntries
         /\ directory \in [names -> [size : {1, 2}, isfile : BOOLEAN, there : {TRUE}]]
         /\ files \in Listings(names)
    /\ pos = 0

\* the entry the loop is at
file == files[pos + 1]

\* the conditions under which the loop body calls os.remove(file_path): the
\* entry is a file, its name matches, the name without the marker is in the
\* listing, and that file exists now with the same size
is_duplicate ==
    /\ directory[file].isfile
    /\ original_name(file) # None
    /\ original_name(file) \in Range(files)
    /\ directory[original_name(file)].there
    /\ directory[original_name(file)].size = directory[file].size

\* one turn of the loop that removes the entry
RemoveDuplicate ==
    /\ pos < Len(files)
    /\ is_duplicate
    /\ directory' = [directory EXCEPT ![file].there = FALSE]
    /\ pos' = pos + 1
    /\ UNCHANGED <<Pipeline, variant, posix, fmt, source_folders, target_folder,
                   call, ncalls, probe, files>>

\* one turn of the loop that leaves the entry
KeepEntry ==
    /\ pos < Len(files)
    /\ ~is_duplicate
    /\ pos' = pos + 1
    /\ UNCHANGED <<Pipeline, variant, posix, fmt, source_folders, target_folder,
                   call, ncalls, probe, files, directory>>

DeleteNext == RemoveDuplicate \/ KeepEntry

SpecDelete == DeleteInit /\ [][DeleteNext]_vars

-----------------------------------------------------------------------------
(* What a run did, read from its log *)

Last(s) == s[Len(s)]

Ops(ops) == {k \in DOMAIN log : log[k].op \in ops}

\* the files of the tree that are images and whose fingerprint can be computed
Hashable == {i \in DOMAIN src : is_image_file(src[i].name) /\ src[i].readable}

\* the files that were in the tree when this run began
InTree == {i \in DOMAIN src : i \notin srcGone \/ \E k \in Ops({"moved"}) : log[k].i = i}

\* the files with the same bytes as file i
Group(i) == {j \in Hashable \cap InTree : src[j].content = src[i].content}

\* the log entries that put the bytes of file i in the target
Placed(i) == {k \in Ops({"copied", "moved"}) : log[k].i = i}

Contents(dir) == {dir[n].content : n \in DOMAIN dir}

\* the rename loop ended, at its end or by an exception
RenamePassOver ==
    \/ pc = "done"
    \/ pc = "aborted" /\ log # <<>> /\ Last(log).op = "rename_failed"

Numbered == Ops({"renamed", "rename_failed"})

PositionIn(s, x) == CHOOSE k \in DOMAIN s : s[k] = x

-----------------------------------------------------------------------------
(* C1 .. C5 *)

\* C1: when a run of ImageProcessor.process_images has ended (no OS failure injected), of every group of image
\* files with the same bytes that hash successfully exactly one was put in the
\* target, the first in enumeration order, and no later one.
C1_ExactlyOneOfEachContent ==
    (variant = "class" /\ RunEnded /\ faults = 0 /\ target_exists) =>
        \A i \in Hashable \cap InTree :
            LET first == CHOOSE j \in Group(i) : \A l \in Group(i) : j <= l
            IN  /\ Cardinality(UNION {Placed(j) : j \in Group(i)}) = 1
                /\ Placed(first) # {}

\* C2: when a run of ImageProcessor.process_images has gone through the copy step and the rename pass (no OS
\* failure injected), every content found among the successfully hashed image
\* files of the tree is the content of some file of the target.
C2_EveryContentSurvives ==
    (variant = "class" /\ pc = "done" /\ faults = 0) =>
        \A i \in Hashable \cap InTree : src[i].content \in Contents(target)

\* C3: no step of the collect step of ImageProcessor puts a file at a name that is taken: every
\* file of the target is still there, with its bytes, after the step.
C3_PlacementNeverOverwrites ==
    [][(variant = "class" /\ pc = "collect") =>
          \A n \in DOMAIN target : n \in DOMAIN target' /\ target'[n] = target[n]]_vars

\* C4: at every point of a run of ImageProcessor.process_images every file
\* of the source tree is still in the source tree.
C4_SourcesUnchanged == variant = "class" => srcGone = {}

\* C5: when the rename loop is over, the numbers given out are exactly
\* 1..k for the k collected files, each once; a record with an earlier date has
\* the smaller number, and of two records with the same date the one copied
\* first has the smaller number.
C5_DenseOrderedNumbers ==
    RenamePassOver =>
        /\ {log[k].n : k \in Numbered} = 1..Len(collected_images)
        /\ Cardinality(Numbered) = Len(collected_images)
        /\ {log[k].path : k \in Numbered} = Range(collected_images)
        /\ \A a, b \in Numbered :
             LET da == image_dates[log[a].n][2]
                 db == image_dates[log[b].n][2]
             IN  /\ log[a].path = image_dates[log[a].n][1]
                 /\ DateLess(da, db) => log[a].n < log[b].n
                 /\ (da = db /\ PositionIn(collected_images, log[a].path)
                                  < PositionIn(collected_images, log[b].path))
                        => log[a].n < log[b].n

\* The part of C5 that the code keeps: the records the loop has handled so far
\* have the numbers 1..idx in the order of the dates, ties in copy order.
C5_NumbersSoFar ==
    pc \in {"rename", "done"} =>
        /\ {log[k].n : k \in Numbered} = 1..idx
        /\ Cardinality(Numbered) = idx
        /\ Len(image_dates) = Len(collected_images)
        /\ {image_dates[m][1] : m \in DOMAIN image_dates} = Range(collected_images)
        /\ \A a, b \in DOMAIN image_dates :
             /\ DateLess(image_dates[a][2], image_dates[b][2]) => a < b
             /\ (image_dates[a][2] = image_dates[b][2]
                   /\ PositionIn(collected_images, image_dates[a][1])
                        < PositionIn(collected_images, image_dates[b][1])) => a < b

-----------------------------------------------------------------------------
(* The file name format of the rename loop, on its own *)

n_two    == <<"a", "_">> \o SubSeq(n_dated, 1, 15) \o <<"-", "2", "0", "2", "4", "0", "2",
              "0", "2", "_", "1", "3", "0", "0", "0", "0", ".", "p", "n", "g">>
n_dots   == <<"a", ".", "b", ".", "J", "p", "e", "g">>

\* names a collected file can have when the rename loop reaches it
Names ==
    { n_plain, n_opaque, n_seq, n_dated, n_locked, n_two, n_dots,
      suffixed_name(n_plain, 1), suffixed_name(n_dated, 1), suffixed_name(n_seq, 12) }

Indexes == {n \in 1..MaxIndex : n <= 11 \/ n \in {99, 100, 101, 999, 1000, 1001}
                                 \/ n >= MaxIndex - 2}

NamesInit ==
    /\ variant = "class"
    /\ posix = TRUE
    /\ src = <<>>
    /\ srcGone = {}
    /\ target = NoFiles
    /\ pc = "idle"
    /\ run = 0
    /\ cur = 1
    /\ collected_images = <<>>
    /\ hash_dict = NoFiles
    /\ image_dates = <<>>
    /\ idx = 0
    /\ log = <<>>
    /\ signals = <<>>
    /\ faults = 0
    /\ endOfRun1 = NoFiles
    /\ target_exists = TRUE
    /\ source_folders = FolderPaths
    /\ target_folder = TargetPath
    /\ call = NoCall
    /\ ncalls = 0
    /\ probe = None
    /\ directory = NoFiles
    /\ files = <<>>
    /\ pos = 0
    /\ fmt \in [index : Indexes, old_name : Names, date : {T1, T2, T3, TNow},
                new_name : {None}]

\* the three lines of the rename loop that build new_name
FormatName ==
    /\ fmt.new_name = None
    /\ fmt' = [fmt EXCEPT !.new_name = new_name(fmt.index, fmt.old_name, fmt.date)]
    /\ UNCHANGED <<variant, posix, src, srcGone, target, pc, run, cur,
                   collected_images, hash_dict, image_dates, idx, log, signals,
                   faults, endOfRun1, target_exists, source_folders, target_folder,
                   call, ncalls, probe, directory, files, pos>>

NamesNext == FormatName

SpecNames == NamesInit /\ [][NamesNext]_vars

Formatted == fmt # None /\ fmt.new_name # None

\* number of characters of the name before its first underscore
SeqLen(name) == (CHOOSE p \in DOMAIN name : name[p] = "_" /\ \A q \in 1..(p - 1) : name[q] # "_") - 1

TimeHits(name) == {p \in DOMAIN name : TimeInfoAt(name, p)}

\* s is the date d written as YYYYMMDD_HHMMSS
WritesDate(s, d) ==
    /\ Len(s) = 15
    /\ AllDigits(s, 1, 8) /\ s[9] = "_" /\ AllDigits(s, 10, 6)
    /\ IntOf(SubSeq(s, 1, 4)) = d[1]
    /\ IntOf(SubSeq(s, 5, 6)) = d[2]
    /\ IntOf(SubSeq(s, 7, 8)) = d[3]
    /\ IntOf(SubSeq(s, 10, 11)) = d[4]
    /\ IntOf(SubSeq(s, 12, 13)) = d[5]
    /\ IntOf(SubSeq(s, 14, 15)) = d[6]

\* e is what follows the last dot of name, the dot included
IsExtension(e, name) ==
    /\ EndsWith(name, e)
    /\ Len(e) >= 1 /\ e[1] = "."
    /\ \A i \in 2..Len(e) : e[i] # "."

\* name is w digits that write n, an underscore, 15 characters and then e,
\* the 15 characters being the first YYYYMMDD_HHMMSS of old when it has one and
\* the date d written out when it has none
WellFormed(name, w, n, old, d, e) ==
    /\ Len(name) = w + 16 + Len(e)
    /\ AllDigits(name, 1, w) /\ IntOf(SubSeq(name, 1, w)) = n
    /\ name[w + 1] = "_"
    /\ SubSeq(name, w + 17, Len(name)) = e
    /\ LET t == SubSeq(name, w + 2, w + 16)
       IN  IF TimeHits(old) = {} THEN WritesDate(t, d)
           ELSE \E p \in TimeHits(old) :
                   /\ \A q \in TimeHits(old) : p <= q
                   /\ t = SubSeq(old, p, p + 14)

-----------------------------------------------------------------------------
(* C6 .. C10 *)

\* C6 as stated: the name built for number n is n in exactly 4 digits, an
\* underscore, the time string and the extension of the current name.
C6_ExactlyFourDigits ==
    Formatted =>
        \E e \in {SubSeq(fmt.old_name, p, Len(fmt.old_name)) : p \in DOMAIN fmt.old_name} :
            /\ IsExtension(e, fmt.old_name)
            /\ WellFormed(fmt.new_name, 4, fmt.index, fmt.old_name, fmt.date, e)

\* C6 as amended: the name built for number n is n in 4 digits when n <= 9999
\* and in the digits of n, more than 4 of them, when n >= 10000; then an
\* underscore, the time string (the first YYYYMMDD_HHMMSS of the current name,
\* else the date formatted), and the extension of the current name unchanged.
C6_AtLeastFourDigits ==
    Formatted =>
        \E e \in {SubSeq(fmt.old_name, p, Len(fmt.old_name)) : p \in DOMAIN fmt.old_name} :
            /\ IsExtension(e, fmt.old_name)
            /\ \E w \in 4..8 :
                 /\ w = 4 <=> fmt.index <= 9999
                 /\ w > 4 => fmt.new_name[1] # "0"
                 /\ WellFormed(fmt.new_name, w, fmt.index, fmt.old_name, fmt.date, e)

\* C6, the case of the amendment: a name was built for a number above 9999 and
\* its sequence part has five digits
C6_Witness ==
    /\ Formatted
    /\ fmt.index > 9999
    /\ SeqLen(fmt.new_name) = 5
    /\ TimeHits(fmt.old_name) # {}

\* C7: a run in which a copy raised was not aborted: it went through the
\* rename pass to its end, and every file of the tree was handled.
C7_CopyFailureDoesNotAbort ==
    (RunEnded /\ Ops({"copy_failed"}) # {}) =>
        /\ pc = "done"
        /\ \A i \in Hashable \cap InTree : \E k \in DOMAIN log : log[k].i = i

\* C8: a run in which a rename raised went on to the end of the rename loop:
\* every record of the sorted list was handled under its own number.
C8_RenameFailureDoesNotAbort ==
    (RunEnded /\ Ops({"rename_failed"}) # {}) =>
        /\ pc = "done"
        /\ {log[k].n : k \in Numbered} = 1..Len(image_dates)

\* C9: a file whose fingerprint cannot be computed is skipped, in every
\* variant: nothing is put in the target, the list or the index for it, the
\* walk is at the next file, and the run is not aborted.
C9_HashFailureSkipsTheFile ==
    \A k \in Ops({"hash_failed"}) :
        /\ Placed(log[k].i) = {}
        /\ k = Len(log) => (pc = "collect" /\ cur = log[k].i + 1)

\* C10: when the second run of ImageProcessor.process_images on the same
\* sources and target has ended (no OS failure injected), the target directory
\* is as the first run left it: the same names with the same bytes.
C10_SecondRunChangesNothing ==
    (variant = "class" /\ run = 2 /\ RunEnded /\ faults = 0 /\ target_exists) =>
        /\ DOMAIN target = DOMAIN endOfRun1
        /\ \A n \in DOMAIN target : target[n].content = endOfRun1[n].content

-----------------------------------------------------------------------------
(* C11 .. C19 *)

\* C11: process_images called with no source folder, or with no target folder,
\* raises a configuration error and does nothing else: no run has ever started
\* on such a configuration, the error is the one of the source check when both
\* are missing, no observer is notified, and the file system, the fields of the
\* processor and everything a run works on are as before the call.
C11_ConfigErrorBeforeAnyWork ==
    /\ [](run > 0 => (source_folders # <<>> /\ target_folder # NoPath))
    /\ [][(call'.op = "process_images" /\ call' # call) =>
            /\ source_folders = <<>> \/ target_folder = NoPath
            /\ call'.raised = IF source_folders = <<>> THEN "no_source" ELSE "no_target"
            /\ call'.notified = <<>>
            /\ UNCHANGED <<Pipeline, source_folders, target_folder>>]_vars

\* C11, its case: process_images has raised for the missing source folders
\* while the target folder was missing too, and nothing has run
C11_Witness ==
    /\ call.op = "process_images"
    /\ call.raised = "no_source"
    /\ target_folder = NoPath
    /\ ncalls > 0
    /\ pc = "idle" /\ signals = <<>> /\ target = NoFiles

\* C16: source_folders never holds a path twice nor the empty path; add_folder
\* of a path that is in the list or of the empty path, and remove_folder of an
\* index outside 0..len-1, leave the list as it is and notify no observer.
C16_FolderListInvariant ==
    /\ [](/\ \A a, b \in DOMAIN source_folders :
               source_folders[a] = source_folders[b] => a = b
          /\ NoPath \notin Range(source_folders))
    /\ [][ncalls' # ncalls =>
            /\ (call'.op = "add_folder"
                  /\ (call'.arg = NoPath \/ call'.arg \in Range(source_folders)))
                 => (source_folders' = source_folders /\ call'.notified = <<>>)
            /\ (call'.op = "remove_folder"
                  /\ (call'.index < 0 \/ call'.index >= Len(source_folders)))
                 => (source_folders' = source_folders /\ call'.notified = <<>>)]_vars

\* C16, its case: add_folder was called with a path that is in the list of two
\* folders, and notified nobody
C16_Witness ==
    /\ call.op = "add_folder"
    /\ call.arg \in Range(source_folders)
    /\ call.notified = <<>>
    /\ Len(source_folders) = 2

\* C12: every resolver gives the date of the metadata when the file has one
\* that parses, whatever its name; with none, the date written in the name when
\* the name holds a valid one; and the modification time otherwise.
C12_MetadataThenNameThenMtime ==
    Resolved =>
        LET m == date_match(probe.file_name)
        IN  IF ExifDate(probe.content) # None THEN probe.date = ExifDate(probe.content)
            ELSE IF m # None /\ ~NoDateIn(m) THEN probe.date = m \o <<0>>
            ELSE probe.date = probe.mtime

\* C13: every resolver returns a date and time, and for a file with no
\* metadata date whose name holds no digit pattern, or six digit groups that are
\* no date (year 0, month outside 1-12, day outside the month, hour, minute or
\* second out of range), it returns the modification time of the file.
C13_AlwaysATimestamp ==
    Resolved =>
        /\ Len(probe.date) = 7
        /\ ~NoDateIn(probe.date)
        /\ LET m == date_match(probe.file_name)
           IN  (ExifDate(probe.content) = None /\ (m = None \/ NoDateIn(m)))
                   => probe.date = probe.mtime

\* C13, its case: a file with no metadata date and a name that says 30 February
\* was given its modification time
C13_Witness ==
    /\ Resolved
    /\ ExifDate(probe.content) = None
    /\ date_match(probe.file_name) # None
    /\ date_match(probe.file_name)[2] = 2
    /\ date_match(probe.file_name)[3] = 30
    /\ probe.date = probe.mtime

\* C14: a file of opaque name with a new fingerprint, handled by the collect
\* step of ImageProcessor, has its bytes in the target under
\* <marker>_<file name>, that path is in the collected list and in the index,
\* and the walk is at the next file.
C14_OpaqueNameCopiedWithPrefix ==
    \A k \in Ops({"moved", "prefix_failed"}) :
        LET i == log[k].i
            p == prefixed_name(src[i].name)
        IN  /\ p \in DOMAIN target /\ target[p].content = src[i].content
            /\ p \in Range(collected_images)
            /\ get_file_hash(src[i]) \in DOMAIN hash_dict
            /\ hash_dict[get_file_hash(src[i])] = p
            /\ k = Len(log) => (pc = "collect" /\ cur = i + 1)

\* C15: a run ends with the target folder a directory, and no file was refused
\* because the target folder was missing.
C15_TargetCreatedIfAbsent ==
    RunEnded => (target_exists /\ Ops({"no_target"}) = {})

\* the log entries of the copies that completed, and their paths in log order
Copies == Ops({"copied"})

\* C17: during the collect step, every entry of the index is for the bytes of
\* a file whose copy completed and holds the path that copy wrote, which has
\* those bytes; the collected list is the paths of the completed copies in the
\* order they were made, and they are the paths of the index; no step changes
\* or removes an entry; and a step in which a copy fails adds nothing to the
\* index nor to the list.
C17_IndexOfCompletedCopies ==
    /\ [](pc = "collect" =>
            /\ \A h \in DOMAIN hash_dict :
                  /\ \E k \in Copies : log[k].path = hash_dict[h] /\ src[log[k].i].content = h
                  /\ hash_dict[h] \in DOMAIN target /\ target[hash_dict[h]].content = h
            /\ Len(collected_images) = Cardinality(Copies)
            /\ \A k \in Copies :
                  collected_images[Cardinality({j \in Copies : j <= k})] = log[k].path
            /\ Range(collected_images) = {hash_dict[h] : h \in DOMAIN hash_dict}
            /\ Cardinality(DOMAIN hash_dict) = Len(collected_images))
    /\ [][(pc = "collect" /\ run' = run) =>
            /\ \A h \in DOMAIN hash_dict :
                  h \in DOMAIN hash_dict' /\ hash_dict'[h] = hash_dict[h]
            /\ (Len(log') = Len(log) + 1
                  /\ Last(log').op \in {"copy_failed", "no_target", "moved", "prefix_failed"})
                 => UNCHANGED <<hash_dict, collected_images>>]_vars

\* C17, its case: the collect step is going on after one copy that completed
\* and one that failed
C17_Witness ==
    /\ pc = "collect"
    /\ Ops({"copy_failed"}) # {}
    /\ Len(collected_images) = 1
    /\ Cardinality(DOMAIN hash_dict) = 1

\* C18: no record is renamed before the walk is over, and every copy comes
\* before every rename; the observers of ImageProcessor have been sent nothing,
\* or collection_completed with the number of files copied, or that and then
\* renaming_completed and processing_completed; nothing is renamed before
\* collection_completed; the last two are sent when every record has been
\* renamed and the run is at its end, and nothing is done after them in the run.
C18_PhasesInOrder ==
    /\ [](/\ Numbered # {} =>
               /\ cur > Len(src)
               /\ pc \in {"rename", "done", "aborted"}
               /\ \A a \in Ops({"copied", "moved"}), b \in Numbered : a < b
          /\ variant = "class" =>
               LET cc == <<"collection_completed", Len(collected_images)>>
                   rc == <<"renaming_completed", Len(collected_images)>>
                   pd == <<"processing_completed", 0>>
               IN  /\ signals \in {<<>>, <<cc>>, <<cc, rc, pd>>}
                   /\ signals = <<>> => Numbered = {}
                   /\ signals # <<>> => (cur > Len(src) /\ pc \in {"dated", "rename", "done", "aborted"})
                   /\ Len(signals) = 3 =>
                        /\ pc = "done"
                        /\ Cardinality(Ops({"renamed"})) = Len(collected_images))
    /\ [][(Len(signals) = 3 /\ run' = run) => UNCHANGED <<log, target, signals>>]_vars

\* C18, its case: a run of ImageProcessor that copied and renamed two files
\* has ended with its three signals sent
C18_Witness ==
    /\ variant = "class"
    /\ pc = "done"
    /\ Len(signals) = 3
    /\ Cardinality(Ops({"renamed"})) = 2
    /\ Cardinality(Ops({"copied"})) = 2

\* C19: when delete_duplicate_images has gone through the listing, whatever
\* its order, the entries removed are exactly the files named
\* <base>(<digits>)<ext> for which <base><ext> was in the directory with the
\* same size when the call began; chains included.
C19_SameFilesLeftInAnyOrder ==
    (files # <<>> /\ pos = Len(files)) =>
        \A n \in DOMAIN directory :
            ~directory[n].there <=>
                /\ directory[n].isfile
                /\ original_name(n) # None
                /\ original_name(n) \in DOMAIN directory
                /\ directory[original_name(n)].size = directory[n].size
====
